---- MODULE Spec2Model ----
(***************************************************************************)
(* Model of homework.py: the poll / validate / parse / notify loop of      *)
(* main() and the pure functions it calls (check_tokens, get_api_answer,   *)
(* check_response, parse_status, send_message).                            *)
(*                                                                         *)
(* Python values are encoded as follows.                                   *)
(*   - a dict with string keys is a TLA+ record; "k in d" is               *)
(*     k \in DOMAIN d, d.get(k) is Get(d, k);                              *)
(*   - a decoded JSON value is [type, value] with type "dict", "list" or   *)
(*     "null" (Python dict, list, None);                                   *)
(*   - an optional integer (None or an int) is [some, v];                  *)
(*   - an exception is [kind, msg]: the class name and str(error);         *)
(*   - the text of a message to the channel is the sequence of the         *)
(*     fragments an f-string joins.                                        *)
(* The model starts at the call of main(). homework.py imports            *)
(* CurrentDateDoesNotExists and NotTelegramError from exeptions, which     *)
(* defines neither; here they are taken as the exception classes they      *)
(* name (check_response raises the first, main() has an except clause for  *)
(* the second, which nothing raises). A send that fails is a               *)
(* TelegramError, the only failure send_message handles.                   *)
(***************************************************************************)
EXTENDS Integers, Sequences, FiniteSets, TLC

VARIABLES
    env,            \* PRACTICUM_TOKEN, TELEGRAM_TOKEN, TELEGRAM_CHAT_ID (os.getenv)
    pc,             \* position of main()
    exitCode,       \* process exit status once main() has left (-1: running)
    clock,          \* what int(time.time()) returns
    timestamp,      \* main(): timestamp (the cursor), optional integer
    preview_api_response, \* main(): the record last notified on, or None
    response,       \* main(): result of the first get_api_answer of the cycle
    api_answer,     \* main(): result of the second get_api_answer of the cycle
    homeworks,      \* main(): the list check_response returned
    error,          \* the exception in flight between try and except
    startups,       \* startup announcements handed to send_message
    cycle,          \* log of the current loop iteration
    prevCycle       \* log of the iteration before it

vars == <<env, pc, exitCode, clock, timestamp, preview_api_response,
          response, api_answer, homeworks, error, startups, cycle, prevCycle>>

----------------------------------------------------------------------------
(* Bounds of the model *)

StartClock == 500       \* value of int(time.time()) when main() is called
MaxClock == 1700        \* no sleep ends later than this: three iterations are explored

(* Program constants *)

RETRY_PERIOD == 600
HTTP_OK == 200

HOMEWORK_VERDICTS ==
    [approved  |-> "Rabota proverena: revyueru vsyo ponravilos. Ura!",
     reviewing |-> "Rabota vzyata na proverku revyuerom.",
     rejected  |-> "Rabota proverena: u revyuera est zamechaniya."]

----------------------------------------------------------------------------
(* Python values *)

None == [some |-> FALSE, v |-> 0]
Some(n) == [some |-> TRUE, v |-> n]

JNull == [type |-> "null", value |-> <<>>]
JList(items) == [type |-> "list", value |-> items]
JDict(d) == [type |-> "dict", value |-> d]

NoRecord == [some |-> FALSE, v |-> <<>>]
SomeRecord(h) == [some |-> TRUE, v |-> h]

NoError == [kind |-> "", msg |-> ""]
Raise(kind, msg) == [kind |-> kind, msg |-> msg]

\* Python truthiness of a string read from the environment (None or str)
TruthyStr(s) == s.some /\ s.v # ""
\* Python truthiness of an optional integer
TruthyInt(t) == t.some /\ t.v # 0

----------------------------------------------------------------------------
(* Inputs: what the environment, the remote endpoint and the channel can do *)

EnvNames == {"PRACTICUM_TOKEN", "TELEGRAM_TOKEN", "TELEGRAM_CHAT_ID"}
\* os.getenv: None (unset), the empty string, or a value
EnvValues == {[some |-> FALSE, v |-> ""], [some |-> TRUE, v |-> ""],
              [some |-> TRUE, v |-> "secret"]}

\* records of the "homeworks" list
HomeworkInputs ==
    {[homework_name |-> "hw1", status |-> "approved"],
     [homework_name |-> "hw1", status |-> "reviewing"],
     [homework_name |-> "hw2", status |-> "approved"],
     [homework_name |-> "hw1", status |-> "accepted"],
     [homework_name |-> "hw1", status |-> "archived"],
     [status |-> "approved"]}

HomeworkLists ==
    {<<>>} \cup {<<h>> : h \in HomeworkInputs}
    \cup {<<[homework_name |-> "hw1", status |-> "approved"],
            [homework_name |-> "hw2", status |-> "archived"]>>}

DateInputs == {0, 300, 1000}

\* decoded bodies of a 200 response
Payloads ==
    {JList(<<>>)}
    \cup {JDict([homeworks |-> JList(l), current_date |-> d]) :
             l \in HomeworkLists, d \in DateInputs}
    \cup {JDict([homeworks |-> JList(l)]) :
             l \in {<<>>, <<[homework_name |-> "hw1", status |-> "approved"]>>}}
    \cup {JDict([homeworks |-> JNull, current_date |-> 1000]),
          JDict([current_date |-> 1000])}

\* what requests.get(...) does: raises, or returns a response whose body
\* response.json() decodes or not
HttpOutcomes ==
    {[exc |-> TRUE, status_code |-> 0, decodable |-> FALSE, json |-> JNull],
     [exc |-> FALSE, status_code |-> 500, decodable |-> FALSE, json |-> JNull],
     [exc |-> FALSE, status_code |-> HTTP_OK, decodable |-> FALSE, json |-> JNull]}
    \cup {[exc |-> FALSE, status_code |-> HTTP_OK, decodable |-> TRUE, json |-> p] :
             p \in Payloads}

----------------------------------------------------------------------------
(* The functions of homework.py *)

\* d.get(key) for the integer-valued key "current_date"
GetDate(d) == IF "current_date" \in DOMAIN d THEN Some(d.current_date) ELSE None
\* d.get(key) for the key "homeworks" (a missing key gives None, as JSON null)
GetHomeworks(d) == IF "homeworks" \in DOMAIN d THEN d.homeworks ELSE JNull

\* a test for "is set" where the code tests truthiness
check_tokens_set(e) == \A n \in EnvNames : e[n].some

check_tokens(e) ==
    /\ TruthyStr(e["PRACTICUM_TOKEN"])
    /\ TruthyStr(e["TELEGRAM_TOKEN"])
    /\ TruthyStr(e["TELEGRAM_CHAT_ID"])

\* the from_date parameter of the request
from_date(current_timestamp, now) ==
    IF TruthyInt(current_timestamp) THEN current_timestamp.v ELSE now

\* get_api_answer: every exception inside the try (the WrongResponseCode for
\* a status other than 200 included) is wrapped in a new WrongResponseCode
\* whose text carries the request parameters and the cause
get_api_answer(current_timestamp, now, http) ==
    LET request == "from_date=" \o ToString(from_date(current_timestamp, now))
        wrap(cause) ==
            [err |-> Raise("WrongResponseCode",
                           "API ne vozvrashchaet 200. " \o request \o ", " \o cause),
             val |-> JNull]
    IN  IF http.exc THEN wrap("ConnectionError")
        ELSE IF http.status_code # HTTP_OK
             THEN wrap("WrongResponseCode: kod " \o ToString(http.status_code))
        ELSE IF ~http.decodable THEN wrap("JSONDecodeError")
        ELSE [err |-> NoError, val |-> http.json]

check_response(resp) ==
    LET fail(kind, msg) == [err |-> Raise(kind, msg), val |-> <<>>]
        homework_response == GetHomeworks(resp.value)
    IN  IF resp.type # "dict"
        THEN fail("TypeError", "prishyol ne slovar: " \o ToString(resp))
        ELSE IF ~TruthyInt(GetDate(resp.value))
        THEN fail("CurrentDateDoesNotExists", "V otvete net tekushchey daty")
        ELSE IF homework_response.type # "list"
        THEN fail("TypeError", "net domashney raboty ili ne list: " \o ToString(resp))
        ELSE IF homework_response.value = <<>>
        THEN fail("KeyError", "pustoy JSON: " \o ToString(resp))
        ELSE IF \/ "homeworks" \notin DOMAIN resp.value
                \/ "current_date" \notin DOMAIN resp.value
        THEN fail("EmptyDictionaryOrListError", "Net klyucha homeworks v otvete API")
        ELSE [err |-> NoError, val |-> homework_response.value]

\* parse_status without its checks of the status and the name
parse_status_unchecked(homework) ==
    [err |-> NoError, val |-> <<"Izmenilsya status proverki raboty">>]

\* parse_status with a text that leaves the name of the homework out
parse_status_unnamed(homework) ==
    IF "status" \notin DOMAIN homework
    THEN [err |-> Raise("KeyError", "Status otsutstvuet v homeworks"), val |-> <<>>]
    ELSE IF homework.status \notin DOMAIN HOMEWORK_VERDICTS
    THEN [err |-> Raise("KeyError",
                        "V domashney rabote net sootvetstvuyushchego statusa"),
          val |-> <<>>]
    ELSE IF "homework_name" \notin DOMAIN homework
    THEN [err |-> Raise("KeyError", "Imya raboty ne naydeno v domashney rabote."),
          val |-> <<>>]
    ELSE [err |-> NoError,
          val |-> <<"Izmenilsya status proverki raboty", homework.status,
                    HOMEWORK_VERDICTS[homework.status]>>]

parse_status(homework) ==
    LET fail(kind, msg) == [err |-> Raise(kind, msg), val |-> <<>>]
    IN  IF "status" \notin DOMAIN homework
        THEN fail("KeyError", "Status otsutstvuet v homeworks")
        ELSE IF homework.status \notin DOMAIN HOMEWORK_VERDICTS
        THEN fail("KeyError", "V domashney rabote net sootvetstvuyushchego statusa")
        ELSE IF "homework_name" \notin DOMAIN homework
        THEN fail("KeyError", "Imya raboty ne naydeno v domashney rabote.")
        ELSE LET verdict == homework.status
                 homework_name == homework.homework_name
                 message == HOMEWORK_VERDICTS[verdict]
             IN  IF verdict = ""
                 THEN fail("UndocumentedStatusError",
                           "Neozhidannyy status domashney raboty")
                 ELSE [err |-> NoError,
                       val |-> <<"Izmenilsya status proverki raboty",
                                 homework_name, verdict, message>>]

\* send_message: hands the text to the channel; a TelegramError is logged
\* and swallowed, so the caller sees no difference. The result is the entry
\* the channel log gets.
send_message(what, message, delivered) ==
    [what |-> what, text |-> message, delivered |-> delivered]

----------------------------------------------------------------------------
(* The log of a loop iteration (history, read by the properties only) *)

NewCycle(ts, prev) ==
    [fetches    |-> 0,      \* calls of get_api_answer
     sent       |-> <<>>,   \* messages handed to send_message
     err        |-> NoError,\* the exception the except clause caught
     slept      |-> 0,      \* calls of time.sleep(RETRY_PERIOD)
     detected   |-> FALSE,  \* parse_status returned and the comparison ran
     seen       |-> FALSE,  \* an earlier iteration parsed a record
     timestamp0 |-> ts,     \* the cursor when the iteration began
     preview0   |-> prev]   \* preview_api_response when the iteration began

\* the alerts and the status notifications among the messages of an iteration
Alerts(c) == Cardinality({i \in DOMAIN c.sent : c.sent[i].what = "alert"})
Notes(c) == Cardinality({i \in DOMAIN c.sent : c.sent[i].what = "status"})

\* the "homeworks" of the payload the iteration validated and parsed (JNull
\* when it did not get that far)
Records(c) == IF c.detected THEN GetHomeworks(api_answer.value) ELSE JNull

\* what is kept of an iteration once the next one has begun; runStart: it
\* parsed records that the iteration before it had not parsed
Summary(c) ==
    [err |-> c.err, alerts |-> Alerts(c), notes |-> Notes(c), slept |-> c.slept,
     records |-> Records(c),
     runStart |-> c.detected /\ Records(c) # prevCycle.records]

----------------------------------------------------------------------------
(* main() *)

Init ==
    /\ env \in [EnvNames -> EnvValues]
    /\ pc = "start"
    /\ exitCode = -1
    /\ clock = StartClock
    /\ timestamp = None
    /\ preview_api_response = NoRecord
    /\ response = JNull
    /\ api_answer = JNull
    /\ homeworks = <<>>
    /\ error = NoError
    /\ startups = 0
    /\ cycle = NewCycle(None, NoRecord)
    /\ prevCycle = Summary(NewCycle(None, NoRecord))

\* lines 147-153: a token is missing, sys.exit(<text>) ends the process
\* with status 1
MainExit ==
    /\ pc = "start"
    /\ ~check_tokens(env)
    /\ pc' = "exited"
    /\ exitCode' = 1
    /\ UNCHANGED <<env, clock, timestamp, preview_api_response,
                   response, api_answer, homeworks, error, startups, cycle, prevCycle>>

\* lines 155-161: the startup announcement and the initial values
MainStart ==
    /\ pc = "start"
    /\ check_tokens(env)
    /\ \E delivered \in BOOLEAN :
          startups' = startups
                      + Len(<<send_message("startup", <<"Ya nachal svoyu rabotu">>, delivered)>>)
    /\ timestamp' = Some(clock)
    /\ preview_api_response' = NoRecord
    /\ cycle' = NewCycle(Some(clock), NoRecord)
    /\ pc' = "fetch1"
    /\ UNCHANGED <<env, exitCode, clock, response, api_answer, homeworks, error, prevCycle>>

\* an exception leaves the try block
Throw(e) ==
    /\ error' = e
    /\ pc' = "except"

\* lines 163-165: response = get_api_answer(timestamp);
\* timestamp = response.get('current_date')
FirstFetch ==
    /\ pc = "fetch1"
    /\ cycle' = [cycle EXCEPT !.fetches = @ + 1]
    /\ \E http \in HttpOutcomes :
          LET r == get_api_answer(timestamp, clock, http)
          IN  IF r.err # NoError
              THEN /\ Throw(r.err)
                   /\ UNCHANGED <<response, timestamp>>
              ELSE /\ response' = r.val
                   /\ IF r.val.type # "dict"
                      THEN /\ Throw(Raise("AttributeError",
                                          "object has no attribute get"))
                           /\ UNCHANGED timestamp
                      ELSE /\ timestamp' = GetDate(r.val.value)
                           /\ pc' = "fetch2"
                           /\ UNCHANGED error
    /\ UNCHANGED <<env, exitCode, clock, preview_api_response, api_answer,
                   homeworks, startups, prevCycle>>

\* line 166: api_answer = get_api_answer(timestamp)
SecondFetch ==
    /\ pc = "fetch2"
    /\ cycle' = [cycle EXCEPT !.fetches = @ + 1]
    /\ \E http \in HttpOutcomes :
          LET r == get_api_answer(timestamp, clock, http)
          IN  IF r.err # NoError
              THEN /\ Throw(r.err)
                   /\ UNCHANGED api_answer
              ELSE /\ api_answer' = r.val
                   /\ pc' = "validate"
                   /\ UNCHANGED error
    /\ UNCHANGED <<env, exitCode, clock, timestamp, preview_api_response, response,
                   homeworks, startups, prevCycle>>

\* line 167: homeworks = check_response(api_answer)
Validate ==
    /\ pc = "validate"
    /\ LET c == check_response(api_answer)
       IN  IF c.err # NoError
           THEN /\ Throw(c.err)
                /\ UNCHANGED homeworks
           ELSE /\ homeworks' = c.val
                /\ pc' = "detect"
                /\ UNCHANGED error
    /\ UNCHANGED <<env, exitCode, clock, timestamp, preview_api_response, response,
                   api_answer, startups, cycle, prevCycle>>

\* a comparison of the statuses alone, where the code compares the records
ChangedByStatus(current, preview) ==
    ~preview.some \/ current.v.status # preview.v.status

\* nothing stored counts as "no change": the first record is not notified on
ChangedUnlessFirst(current, preview) == preview.some /\ current # preview

\* no comparison at all: every parsed record counts as a change
ChangedAlways(current, preview) == TRUE

\* line 173: current_api_answer != preview_api_response (None or a dict)
Changed(current, preview) == current # preview

\* the last record of the list, where the code takes the first
NewestIsLast(hs) == hs[Len(hs)]

\* line 170: homework = homeworks[0]
Newest(hs) == hs[1]

\* Detect with a send_message that lets the TelegramError reach main()
DetectRaising ==
    /\ pc = "detect"
    /\ LET homework == Newest(homeworks)
           p == parse_status(homework)
           current_api_answer == SomeRecord(homework)
       IN  IF p.err # NoError
           THEN /\ Throw(p.err)
                /\ UNCHANGED <<preview_api_response, cycle>>
           ELSE IF Changed(current_api_answer, preview_api_response)
           THEN \E delivered \in BOOLEAN :
                   /\ cycle' = [cycle EXCEPT
                          !.detected = TRUE,
                          !.sent = Append(@, send_message("status", p.val, delivered))]
                   /\ IF delivered
                      THEN /\ preview_api_response' = current_api_answer
                           /\ pc' = "finally"
                           /\ UNCHANGED error
                      ELSE /\ Throw(Raise("TelegramError", "send failed"))
                           /\ UNCHANGED preview_api_response
           ELSE /\ cycle' = [cycle EXCEPT !.detected = TRUE]
                /\ pc' = "finally"
                /\ UNCHANGED <<preview_api_response, error>>
    /\ UNCHANGED <<env, exitCode, clock, timestamp, response, api_answer,
                   homeworks, startups, prevCycle>>

\* lines 169-180: parse the newest record, compare it with the stored one,
\* notify and store it
Detect ==
    /\ pc = "detect"
    /\ IF homeworks # <<>>
       THEN LET homework == Newest(homeworks)
                p == parse_status(homework)
                current_api_answer == SomeRecord(homework)
            IN  IF p.err # NoError
                THEN /\ Throw(p.err)
                     /\ UNCHANGED <<preview_api_response, cycle>>
                ELSE /\ IF Changed(current_api_answer, preview_api_response)
                        THEN /\ \E delivered \in BOOLEAN :
                                   cycle' = [cycle EXCEPT
                                       !.detected = TRUE,
                                       !.sent = Append(@,
                                           send_message("status", p.val, delivered))]
                             /\ preview_api_response' = current_api_answer
                        ELSE /\ cycle' = [cycle EXCEPT !.detected = TRUE]
                             /\ UNCHANGED preview_api_response
                     /\ pc' = "finally"
                     /\ UNCHANGED error
       ELSE /\ pc' = "finally"
            /\ UNCHANGED <<preview_api_response, cycle, error>>
    /\ UNCHANGED <<env, exitCode, clock, timestamp, response, api_answer,
                   homeworks, startups, prevCycle>>

\* an except clause that lets the exception leave main()
HandleErrorReraise ==
    /\ pc = "except"
    /\ cycle' = [cycle EXCEPT !.err = error]
    /\ pc' = "exited"
    /\ exitCode' = 1
    /\ UNCHANGED <<env, clock, timestamp, preview_api_response, response,
                   api_answer, homeworks, error, startups, prevCycle>>

\* lines 181-189: except NotTelegramError logs; except Exception sends the
\* alert and logs
HandleError ==
    /\ pc = "except"
    /\ IF error.kind = "NotTelegramError"
       THEN cycle' = [cycle EXCEPT !.err = error]
       ELSE \E delivered \in BOOLEAN :
               cycle' = [cycle EXCEPT
                   !.err = error,
                   !.sent = Append(@,
                       send_message("alert", <<"Sboy v rabote programmy", error.msg>>,
                                    delivered))]
    /\ error' = NoError
    /\ pc' = "finally"
    /\ UNCHANGED <<env, exitCode, clock, timestamp, preview_api_response,
                   response, api_answer, homeworks, startups, prevCycle>>

\* lines 190-191: finally: time.sleep(RETRY_PERIOD), then the next iteration.
\* response, api_answer and homeworks are dead here (the next iteration assigns each
\* before reading it), so the model forgets them; the log of the iteration
\* is closed and a new one begun. time.time() has advanced by the period when
\* the sleep returns; the exploration ends with the last sleep that returns by
\* MaxClock.
Sleep ==
    /\ pc = "finally"
    /\ clock + RETRY_PERIOD <= MaxClock
    /\ clock' = clock + RETRY_PERIOD
    /\ prevCycle' = Summary([cycle EXCEPT !.slept = @ + 1])
    /\ cycle' = [NewCycle(timestamp, preview_api_response)
                    EXCEPT !.seen = cycle.seen \/ cycle.detected]
    /\ response' = JNull
    /\ api_answer' = JNull
    /\ homeworks' = <<>>
    /\ pc' = "fetch1"
    /\ UNCHANGED <<env, exitCode, timestamp, preview_api_response, error, startups>>

Next ==
    \/ MainExit
    \/ MainStart
    \/ FirstFetch
    \/ SecondFetch
    \/ Validate
    \/ Detect
    \/ HandleError
    \/ Sleep

Spec == Init /\ [][Next]_vars

\* the loop is one sequential process that is never suspended for ever:
\* every call it makes returns
FairSpec == Spec /\ WF_vars(Next)

----------------------------------------------------------------------------
(* The script as the interpreter runs it: the module is loaded (its import  *)
(* statements run), then main() is called                                   *)

\* the classes exeptions.py defines
ExeptionsDefines ==
    {"EmptyDictionaryOrListError", "UndocumentedStatusError", "WrongResponseCode",
     "EmptyResponseFromAPI", "TelegramError", "JsonDoesNotExists"}

\* the names homework.py imports from exeptions
ImportedNames ==
    {"CurrentDateDoesNotExists", "EmptyDictionaryOrListError", "NotTelegramError",
     "UndocumentedStatusError", "WrongResponseCode"}

\* lines 12-14: from exeptions import (...): ImportError (the interpreter
\* exits with status 1) unless exeptions defines every name
Load ==
    /\ pc = "load"
    /\ IF ImportedNames \subseteq ExeptionsDefines
       THEN /\ pc' = "start"
            /\ UNCHANGED exitCode
       ELSE /\ pc' = "exited"
            /\ exitCode' = 1
    /\ UNCHANGED <<env, clock, timestamp, preview_api_response, response,
                   api_answer, homeworks, error, startups, cycle, prevCycle>>

\* two entries: the script run by the interpreter ("load"), and main()
\* called with the imported names bound ("start", as in Init)
ProgramInit ==
    /\ env \in [EnvNames -> EnvValues]
    /\ pc \in {"load", "start"}
    /\ exitCode = -1
    /\ clock = StartClock
    /\ timestamp = None
    /\ preview_api_response = NoRecord
    /\ response = JNull
    /\ api_answer = JNull
    /\ homeworks = <<>>
    /\ error = NoError
    /\ startups = 0
    /\ cycle = NewCycle(None, NoRecord)
    /\ prevCycle = Summary(NewCycle(None, NoRecord))

ProgramNext == Load \/ Next

ProgramSpec == ProgramInit /\ [][ProgramNext]_vars

----------------------------------------------------------------------------
(* Properties *)

\* the try statement of the iteration has ended and the sleep has not begun
EndOfTry == pc = "finally"
\* the positions inside the loop after the first fetch
AfterFirstFetch == pc \in {"fetch2", "validate", "detect", "except", "finally"}
\* the status of the stored record ("(none)" when nothing is stored)
StoredStatus(p) == IF p.some THEN p.v.status ELSE "(none)"

\* C1 as stated: in an iteration that reaches the comparison, a status
\* notification is sent if and only if the status of the newest record
\* differs from the status of the stored record.
C1_NotifyIffStatusDiffers ==
    (EndOfTry /\ cycle.detected)
        => ((Notes(cycle) = 1) <=> (homeworks[1].status # StoredStatus(cycle.preview0)))

\* C1 amended: in an iteration that reaches the comparison, exactly one
\* status notification is handed to send_message if the newest record, as a
\* whole dict, differs from the stored record (or nothing is stored), and
\* none otherwise.
C1_NotifyIffRecordDiffers ==
    (EndOfTry /\ cycle.detected)
        => /\ Notes(cycle) <= 1
           /\ (Notes(cycle) = 1) <=> (SomeRecord(homeworks[1]) # cycle.preview0)

\* a record with the stored status and another name was notified on
C1_Witness ==
    /\ EndOfTry /\ cycle.detected
    /\ cycle.preview0.some
    /\ homeworks[1].status = cycle.preview0.v.status
    /\ homeworks[1] # cycle.preview0.v
    /\ Notes(cycle) = 1

\* C2: of two consecutive failing iterations with the same error signature
\* only the first sends an alert; with different signatures both do.
C2_OneAlertPerSignature ==
    (EndOfTry /\ cycle.err # NoError /\ prevCycle.slept = 1 /\ prevCycle.err # NoError)
        => IF cycle.err = prevCycle.err
           THEN prevCycle.alerts + Alerts(cycle) = 1
           ELSE prevCycle.alerts + Alerts(cycle) = 2

\* C3: the cursor is an integer and is never below the value it had when
\* the iteration began.
C3_CursorNeverDecreases ==
    AfterFirstFetch => (timestamp.some /\ timestamp.v >= cycle.timestamp0.v)

\* C4: an iteration whose validated payload has an empty "homeworks" list
\* raises nothing, sends nothing, and leaves the cursor at the payload's
\* current_date when it has one.
C4_EmptyListIsNoError ==
    (EndOfTry /\ api_answer.type = "dict"
              /\ GetHomeworks(api_answer.value) = JList(<<>>))
        => /\ cycle.err = NoError
           /\ cycle.sent = <<>>
           /\ ("current_date" \in DOMAIN api_answer.value
                  => timestamp = Some(api_answer.value.current_date))

\* C5: a failing iteration leaves the cursor as it was when it began.
C5_FailureKeepsCursor ==
    (EndOfTry /\ cycle.err # NoError) => timestamp = cycle.timestamp0

\* C6: when the send of a status notification fails, the stored record
\* keeps the value it had when the iteration began.
C6_StoreOnlyAfterDelivery ==
    (EndOfTry /\ \E i \in DOMAIN cycle.sent :
                    cycle.sent[i].what = "status" /\ ~cycle.sent[i].delivered)
        => preview_api_response = cycle.preview0

\* C7: an iteration whose newest record has the status "archived" fails
\* with the unknown-status error, sends no status notification, leaves the
\* stored record alone, and sends its alert only if the iteration before it
\* did not fail the same way.
C7_ArchivedAlertedOnce ==
    (EndOfTry /\ homeworks # <<>> /\ "status" \in DOMAIN homeworks[1]
              /\ homeworks[1].status = "archived")
        => /\ cycle.err = Raise("KeyError",
                                "V domashney rabote net sootvetstvuyushchego statusa")
           /\ Notes(cycle) = 0
           /\ preview_api_response = cycle.preview0
           /\ Alerts(cycle) = (IF prevCycle.err = cycle.err THEN 0 ELSE 1)

\* the sleep of the current iteration returns within the explored time
WithinHorizon == clock + RETRY_PERIOD <= MaxClock

\* C8: once in the loop, every iteration, failing or not, reaches its sleep,
\* sleeps exactly once and is followed by the first fetch of another one
\* (for every iteration whose sleep returns within the explored time).
C8_LoopNeverTerminates ==
    /\ (AfterFirstFetch /\ WithinHorizon) ~> (pc = "fetch1" /\ prevCycle.slept = 1)
    /\ (pc = "fetch1") ~> (cycle.fetches = 1)

\* a failing iteration has slept once and the next iteration has fetched
C8_Witness ==
    /\ pc \in {"fetch2", "except"}
    /\ cycle.fetches = 1
    /\ prevCycle.slept = 1
    /\ prevCycle.err # NoError

\* one of the three credentials is unset or empty
MissingToken == \E n \in EnvNames : ~env[n].some \/ env[n].v = ""

\* C9: with a credential missing or empty main() never enters the loop: it
\* exits with a non-zero status, no fetch is made, nothing is sent and no
\* sleep occurs.
C9_MissingTokenExits ==
    MissingToken
        => /\ pc \in {"start", "exited"}
           /\ (pc = "exited" => exitCode # 0)
           /\ startups = 0
           /\ cycle.fetches = 0 /\ cycle.sent = <<>>
           /\ cycle.slept = 0 /\ prevCycle.slept = 0

\* main() has exited because TELEGRAM_CHAT_ID is the empty string
C9_Witness ==
    /\ pc = "exited" /\ exitCode = 1
    /\ env["PRACTICUM_TOKEN"] = [some |-> TRUE, v |-> "secret"]
    /\ env["TELEGRAM_TOKEN"] = [some |-> TRUE, v |-> "secret"]
    /\ env["TELEGRAM_CHAT_ID"] = [some |-> TRUE, v |-> ""]

\* the payload of the scenario, with the given status
ScenarioPayload(st) ==
    JDict([homeworks |-> JList(<<[homework_name |-> "hw1", status |-> st]>>),
           current_date |-> 1000])
\* the text has the word among its fragments
Mentions(text, word) == \E i \in DOMAIN text : text[i] = word

\* C10 as stated: an iteration that fetches the scenario's payload with the
\* status "accepted", the stored status being another one, sends one
\* notification naming "hw1" and "accepted", stores the accepted record and
\* sets the cursor to 1000.
C10_AcceptedScenario ==
    (EndOfTry /\ response = ScenarioPayload("accepted")
              /\ api_answer = ScenarioPayload("accepted")
              /\ StoredStatus(cycle.preview0) # "accepted")
        => /\ Len(cycle.sent) = 1
           /\ cycle.sent[1].what = "status"
           /\ Mentions(cycle.sent[1].text, "hw1")
           /\ Mentions(cycle.sent[1].text, "accepted")
           /\ StoredStatus(preview_api_response) = "accepted"
           /\ timestamp = Some(1000)

\* C10 amended: the verdict vocabulary is approved, reviewing, rejected.
\* With a reviewing record stored, an iteration whose two fetches return the
\* scenario's payload with the status "approved" hands one notification
\* naming "hw1" and "approved" to send_message, stores the approved record
\* and sets the cursor to 1000.
C10_ApprovedScenario ==
    (EndOfTry /\ response = ScenarioPayload("approved")
              /\ api_answer = ScenarioPayload("approved")
              /\ StoredStatus(cycle.preview0) = "reviewing")
        => /\ Len(cycle.sent) = 1
           /\ cycle.sent[1].what = "status"
           /\ Mentions(cycle.sent[1].text, "hw1")
           /\ Mentions(cycle.sent[1].text, "approved")
           /\ preview_api_response
                = SomeRecord([homework_name |-> "hw1", status |-> "approved"])
           /\ timestamp = Some(1000)

\* the approved scenario has run with a reviewing record stored
C10_Witness ==
    /\ EndOfTry
    /\ response = ScenarioPayload("approved")
    /\ api_answer = ScenarioPayload("approved")
    /\ StoredStatus(cycle.preview0) = "reviewing"
    /\ Notes(cycle) = 1

\* this iteration validated and parsed the same records as the iteration
\* before it (the current_date of the payload may differ)
SamePayloadAgain ==
    /\ EndOfTry /\ cycle.detected
    /\ Records(cycle) = prevCycle.records

\* C11 as stated: of consecutive successful iterations with the same
\* payload content the first sends exactly one status notification; the
\* later ones send nothing, leave the stored record alone, and the cursor is
\* the current_date the server gave.
C11_ExactlyOneForSamePayload ==
    SamePayloadAgain
        => /\ prevCycle.runStart => prevCycle.notes = 1
           /\ Notes(cycle) = 0
           /\ preview_api_response = cycle.preview0
           /\ timestamp = GetDate(response.value)

\* C11 amended: of consecutive successful iterations with the same payload
\* content the first hands at most one status notification to send_message
\* (none when its newest record was already stored), the later ones send
\* nothing and leave the stored record alone, and the cursor is the
\* current_date of the iteration's first response.
C11_NothingForSamePayload ==
    SamePayloadAgain
        => /\ prevCycle.notes <= 1
           /\ cycle.sent = <<>>
           /\ preview_api_response = cycle.preview0
           /\ timestamp = GetDate(response.value)

\* the same records came twice, the first time with a notification, and
\* the cursor moved with the first response of the second iteration
C11_Witness ==
    /\ SamePayloadAgain
    /\ prevCycle.runStart /\ prevCycle.notes = 1
    /\ timestamp # cycle.timestamp0

\* C12: with all credentials present, once the process is past its start-up
\* it has sent exactly one startup announcement and is in the loop; no fetch
\* is made before the announcement.
C12_StartupAnnounced ==
    /\ (check_tokens(env) /\ pc \notin {"load", "start"})
           => (startups = 1 /\ pc # "exited")
    /\ (startups = 0) => (cycle.fetches = 0)

\* some message of the iteration was refused by the channel (TelegramError)
SendFailed == \E i \in DOMAIN cycle.sent : ~cycle.sent[i].delivered

\* C13: a send the channel refuses raises nothing into main(): the
\* iteration goes on to its sleep with no exception in flight, no alert
\* about the send and no further fetch; after a refused status notification
\* the iteration is a non-failing one.
C13_ChannelFailureContained ==
    SendFailed
        => /\ pc = "finally" /\ error = NoError
           /\ Len(cycle.sent) = 1
           /\ (cycle.sent[1].what = "status"
                  => cycle.err = NoError /\ Alerts(cycle) = 0 /\ cycle.fetches = 2)

\* a status notification was refused and the iteration is at its sleep
C13_Witness ==
    /\ EndOfTry
    /\ Len(cycle.sent) = 1
    /\ cycle.sent[1].what = "status" /\ ~cycle.sent[1].delivered

\* C14 as stated: the stored record is unset or has a status among pending,
\* accepted, rejected and a homework name.
C14_StoredInSpecVocabulary ==
    preview_api_response.some
        => /\ "status" \in DOMAIN preview_api_response.v
           /\ preview_api_response.v.status \in {"pending", "accepted", "rejected"}
           /\ "homework_name" \in DOMAIN preview_api_response.v

\* C14 amended: the stored record is unset or has a status among approved,
\* reviewing, rejected and a homework name.
C14_StoredInVocabulary ==
    preview_api_response.some
        => /\ "status" \in DOMAIN preview_api_response.v
           /\ preview_api_response.v.status \in {"approved", "reviewing", "rejected"}
           /\ "homework_name" \in DOMAIN preview_api_response.v

\* with a record stored, a newest record with an unmapped status or without
\* a name was validated and the iteration has ended
C14_Witness ==
    /\ EndOfTry
    /\ preview_api_response.some
    /\ homeworks # <<>>
    /\ \/ "homework_name" \notin DOMAIN homeworks[1]
       \/ homeworks[1].status = "archived"

\* C15: an iteration makes one fetch, and the payload it validates is the
\* one whose current_date became the cursor.
C15_OneFetchPerCycle ==
    EndOfTry => /\ cycle.fetches = 1
                /\ (api_answer # JNull => api_answer = response)

\* C16: the first iteration that validates and parses a record sends a
\* status notification, whatever the record.
C16_FirstRecordNotified ==
    (EndOfTry /\ cycle.detected /\ ~cycle.seen)
        => /\ Notes(cycle) = 1
           /\ preview_api_response = SomeRecord(homeworks[1])

\* the first record was parsed in an iteration that followed a failing one
C16_Witness ==
    /\ EndOfTry /\ cycle.detected /\ ~cycle.seen
    /\ prevCycle.slept = 1 /\ prevCycle.err # NoError
    /\ Notes(cycle) = 1

\* C17: check_response raises the missing-cursor error exactly when the
\* dict has no "current_date" key.
C17_CursorMissingIffNoKey ==
    (pc \in {"detect", "except"} /\ api_answer # JNull /\ api_answer.type = "dict")
        => ((pc = "except" /\ error.kind = "CurrentDateDoesNotExists")
                <=> "current_date" \notin DOMAIN api_answer.value)

\* C18: with two or more records validated, the outcome of the iteration is
\* the one the first record alone decides: its parse error, or its storing
\* with a notification if it differs from the stored record.
C18_OnlyNewestInspected ==
    (EndOfTry /\ Len(homeworks) >= 2)
        => LET first == homeworks[1]
               p == parse_status(first)
           IN  IF p.err # NoError
               THEN /\ cycle.err = p.err
                    /\ Notes(cycle) = 0
                    /\ preview_api_response = cycle.preview0
               ELSE /\ cycle.err = NoError
                    /\ preview_api_response = SomeRecord(first)
                    /\ Notes(cycle) = IF SomeRecord(first) # cycle.preview0 THEN 1 ELSE 0

\* a list whose second record has an unmapped status was notified on for
\* its first record
C18_Witness ==
    /\ EndOfTry /\ Len(homeworks) >= 2
    /\ homeworks[2].status = "archived"
    /\ Notes(cycle) = 1
    /\ preview_api_response = SomeRecord(homeworks[1])

\* C19: an iteration hands at most one message to the channel, so never a
\* status notification and an alert.
C19_AtMostOneMessage ==
    /\ Len(cycle.sent) <= 1
    /\ Notes(cycle) + Alerts(cycle) <= 1

\* the parse of a validated record failed and the alert is the only message
C19_Witness ==
    /\ EndOfTry
    /\ homeworks # <<>> /\ cycle.err # NoError
    /\ Len(cycle.sent) = 1 /\ Alerts(cycle) = 1

====
